---- MODULE Spec2Model ----
(***************************************************************************)
(* Model of the configuration core of rx (src/src/config.rs, helper.rs,    *)
(* global.rs): the Commands root with one optional CommandConfig per       *)
(* context, the CommandConfig mutation methods, and Config::load / save    *)
(* through the process-wide raw content buffer.                            *)
(*                                                                         *)
(* Encoding.  Option<T> is a sequence of length 0 (None) or 1 (Some(x)).   *)
(* A HashMap<String, CommandDetails> is a function whose domain is the set *)
(* of keys.  A HashMap<String, String> (env) is a set of <<key, value>>    *)
(* pairs.  A text file is a sequence of lines; a line is a record (table   *)
(* header, key/value pair, or text that is no TOML).                       *)
(***************************************************************************)
EXTENDS Integers, Sequences, FiniteSets, TLC

\* Number of operations performed in one run of the program.
MaxOps == 3

None == <<>>
Some(x) == <<x>>
IsSome(o) == Len(o) = 1
IsNone(o) == Len(o) = 0
Unwrap(o) == o[1]

\* enum CommandContext, in declaration order (the fields of struct Commands).
ContextOrder == <<"run", "test", "build", "bench", "script">>
CommandContext == {ContextOrder[i] : i \in 1..Len(ContextOrder)}

\* enum CommandType; Shell is #[default].
Cargo == "cargo"
Shell == "shell"
CommandType == {Cargo, Shell}

\* Inputs of the operations.
KeyOrder == <<"", "default", "fast">>
Keys == {KeyOrder[i] : i \in 1..Len(KeyOrder)}
ContextsIn == {"run", "script"}
CommandsIn == {"run --release"}
ParamsIn == {"--verbose"}
DirsIn == {"/tmp"}
AllowIn == BOOLEAN
TypesIn == CommandType

\* ConfigError variants and the Ok result.
Ok == "Ok"
ConfigKeyNotFound == "ConfigKeyNotFound"
InvalidPreCommand == "InvalidPreCommand"
IOError == "IOError"

\* #[derive(Default)] for CommandDetails: Shell and every Option None.
CommandDetails_default ==
    [command_type |-> Shell, command |-> None, params |-> None, env |-> None,
     allow_multiple_instances |-> None, working_directory |-> None,
     pre_command |-> None]

\* CommandConfig::default_command_details
default_command_details(command, command_type) ==
    [command_type |-> command_type,
     command |-> Some(command),
     params |-> Some(""),
     allow_multiple_instances |-> Some(FALSE),
     working_directory |-> Some("${workspaceFolder}"),
     pre_command |-> Some(""),
     env |-> Some({})]

\* CommandConfig::with_context
with_context(context) ==
    LET default_details ==
            CASE context = "run" ->
                    default_command_details(
                        "run --package ${packageName} --bin ${binaryName}", Cargo)
              [] context = "test" -> default_command_details("test", Cargo)
              [] context = "build" -> default_command_details("build", Cargo)
              [] context = "bench" -> default_command_details("bench", Cargo)
              [] OTHER -> default_command_details("", Shell)
    IN  [default |-> "default",
         configs |-> [k \in {"default"} |-> default_details]]

\* impl Default for CommandConfig
CommandConfig_default ==
    [default |-> "default", configs |-> [k \in {} |-> CommandDetails_default]]

\* Bug: the script slot is seeded like the other four.
Commands_default_all ==
    [c \in CommandContext |-> Some(with_context(c))]

\* impl Default for Commands
Commands_default ==
    [c \in CommandContext |->
        IF c = "script" THEN None ELSE Some(with_context(c))]

\* Details handed to update_config by callers.
FastDetails == [CommandDetails_default EXCEPT !.command = Some("run --release")]
LinkedDetails ==
    [CommandDetails_default EXCEPT
        !.command_type = Cargo,
        !.pre_command = Some("fast"),
        !.env = Some({<<"RUST_LOG", "debug">>})]
DetailsIn == {FastDetails, LinkedDetails}

----------------------------------------------------------------------------
(* Methods of Commands and CommandConfig.  A method with a Result returns  *)
(* [res, self]: the result and the receiver after the call.                *)

\* Bug: Option::take in place of get_or_insert_with empties a present slot.
get_or_insert_command_config_take(self, context) ==
    IF IsSome(self[context])
    THEN [self EXCEPT ![context] = None]
    ELSE [self EXCEPT ![context] = Some(CommandConfig_default)]

\* Bug: Option::insert in place of get_or_insert_with replaces a present set.
get_or_insert_command_config_insert(self, context) ==
    [self EXCEPT ![context] = Some(CommandConfig_default)]

\* Commands::get_or_insert_command_config: Option::get_or_insert_with.
get_or_insert_command_config(self, context) ==
    IF IsSome(self[context])
    THEN self
    ELSE [self EXCEPT ![context] = Some(CommandConfig_default)]

\* Bug: default is assigned before the key is looked up.
set_default_config_write_first(self, context, new_default_key) ==
    IF IsSome(self[context])
    THEN LET config == Unwrap(self[context])
             written == [self EXCEPT ![context] =
                            Some([config EXCEPT !.default = new_default_key])]
         IN  IF new_default_key \in DOMAIN config.configs
             THEN [res |-> Ok, self |-> written]
             ELSE [res |-> ConfigKeyNotFound, self |-> written]
    ELSE [res |-> ConfigKeyNotFound, self |-> self]

\* Bug: the contains_key check is missing.
set_default_config_unchecked(self, context, new_default_key) ==
    IF IsSome(self[context])
    THEN [res |-> Ok,
          self |-> [self EXCEPT ![context] =
                       Some([Unwrap(@) EXCEPT !.default = new_default_key])]]
    ELSE [res |-> ConfigKeyNotFound, self |-> self]

\* Commands::set_default_config
set_default_config(self, context, new_default_key) ==
    IF IsSome(self[context])
    THEN LET config == Unwrap(self[context])
         IN  IF new_default_key \in DOMAIN config.configs
             THEN [res |-> Ok,
                   self |-> [self EXCEPT ![context] =
                                Some([config EXCEPT !.default = new_default_key])]]
             ELSE [res |-> ConfigKeyNotFound, self |-> self]
    ELSE [res |-> ConfigKeyNotFound, self |-> self]

\* The closures passed to update_command_details each assign one field.
SetField(details, field, value) ==
    CASE field = "command" -> [details EXCEPT !.command = value]
      [] field = "params" -> [details EXCEPT !.params = value]
      [] field = "allow_multiple_instances" ->
            [details EXCEPT !.allow_multiple_instances = value]
      [] field = "working_directory" ->
            [details EXCEPT !.working_directory = value]
      [] field = "pre_command" -> [details EXCEPT !.pre_command = value]
      [] field = "command_type" -> [details EXCEPT !.command_type = value]

\* Bug: entry().or_default() in place of get_mut creates the missing variant.
update_command_details_upsert(self, key, field, value) ==
    [res |-> Ok,
     self |-> [self EXCEPT !.configs =
                 [k \in (DOMAIN self.configs) \cup {key} |->
                    IF k = key
                    THEN SetField(IF key \in DOMAIN self.configs
                                  THEN self.configs[key]
                                  ELSE CommandDetails_default, field, value)
                    ELSE self.configs[k]]]]

\* CommandConfig::update_command_details
update_command_details(self, key, field, value) ==
    IF key \in DOMAIN self.configs
    THEN [res |-> Ok,
          self |-> [self EXCEPT !.configs[key] = SetField(@, field, value)]]
    ELSE [res |-> ConfigKeyNotFound, self |-> self]

\* CommandConfig::update_command
update_command(self, key, command) ==
    update_command_details(self, key, "command", Some(command))

\* CommandConfig::update_allow_multiple_instances
update_allow_multiple_instances(self, key, allow) ==
    update_command_details(self, key, "allow_multiple_instances", Some(allow))

\* CommandConfig::update_working_directory
update_working_directory(self, key, cwd) ==
    update_command_details(self, key, "working_directory", Some(cwd))

\* Bug: the check that pre_command names an existing key is missing.
update_pre_command_dangling(self, key, pre_command) ==
    IF pre_command = key
    THEN [res |-> InvalidPreCommand, self |-> self]
    ELSE IF pre_command = ""
    THEN update_command_details(self, key, "pre_command", None)
    ELSE update_command_details(self, key, "pre_command", Some(pre_command))

\* Bug: clearing stores the empty string instead of None.
update_pre_command_empty(self, key, pre_command) ==
    IF pre_command = key
    THEN [res |-> InvalidPreCommand, self |-> self]
    ELSE IF pre_command \notin DOMAIN self.configs /\ pre_command # ""
    THEN [res |-> InvalidPreCommand, self |-> self]
    ELSE update_command_details(self, key, "pre_command", Some(pre_command))

\* Bug: the self-reference check is missing.
update_pre_command_self(self, key, pre_command) ==
    IF pre_command = ""
    THEN update_command_details(self, key, "pre_command", None)
    ELSE IF pre_command \notin DOMAIN self.configs
    THEN [res |-> InvalidPreCommand, self |-> self]
    ELSE update_command_details(self, key, "pre_command", Some(pre_command))

\* Bug: the emptiness check comes before the self-reference check.
update_pre_command_empty_first(self, key, pre_command) ==
    IF pre_command = ""
    THEN update_command_details(self, key, "pre_command", None)
    ELSE IF pre_command = key
    THEN [res |-> InvalidPreCommand, self |-> self]
    ELSE IF pre_command \notin DOMAIN self.configs
    THEN [res |-> InvalidPreCommand, self |-> self]
    ELSE update_command_details(self, key, "pre_command", Some(pre_command))

\* CommandConfig::update_pre_command
update_pre_command(self, key, pre_command) ==
    IF pre_command = key
    THEN [res |-> InvalidPreCommand, self |-> self]
    ELSE IF pre_command = ""
    THEN update_command_details(self, key, "pre_command", None)
    ELSE IF pre_command \notin DOMAIN self.configs
    THEN [res |-> InvalidPreCommand, self |-> self]
    ELSE update_command_details(self, key, "pre_command", Some(pre_command))

\* CommandConfig::update_command_type
update_command_type(self, key, command_type) ==
    update_command_details(self, key, "command_type", command_type)

\* Bug: the closure assigns command instead of params.
update_params_command(self, config_key, new_params) ==
    update_command_details(self, config_key, "command", Some(new_params))

\* CommandConfig::update_params
update_params(self, config_key, new_params) ==
    update_command_details(self, config_key, "params", Some(new_params))

\* Bug: entry().or_insert() in place of insert keeps an existing variant.
update_config_or_insert(self, key, details) ==
    [self EXCEPT !.configs =
        [k \in (DOMAIN self.configs) \cup {key} |->
            IF k \in DOMAIN self.configs THEN self.configs[k] ELSE details]]

\* CommandConfig::update_config: HashMap::insert.
update_config(self, key, details) ==
    [self EXCEPT !.configs =
        [k \in (DOMAIN self.configs) \cup {key} |->
            IF k = key THEN details ELSE self.configs[k]]]

\* Bug: the removal also clears the pre_command links that name the key.
remove_config_cascade(self, key) ==
    [default |-> IF self.default = key THEN "default" ELSE self.default,
     configs |-> [k \in (DOMAIN self.configs) \ {key} |->
                    IF self.configs[k].pre_command = Some(key)
                    THEN [self.configs[k] EXCEPT !.pre_command = None]
                    ELSE self.configs[k]]]

\* Bug: the default pointer is not reset.
remove_config_no_reset(self, key) ==
    [default |-> self.default,
     configs |-> [k \in (DOMAIN self.configs) \ {key} |-> self.configs[k]]]

\* Bug: the commented-out alternative, default falls to a remaining key.
remove_config_first_key(self, key) ==
    LET removed == [k \in (DOMAIN self.configs) \ {key} |-> self.configs[k]]
    IN  [default |-> IF self.default = key
                     THEN IF DOMAIN removed = {} THEN "default"
                          ELSE CHOOSE k \in DOMAIN removed : TRUE
                     ELSE self.default,
         configs |-> removed]

\* CommandConfig::remove_config: HashMap::remove, then the default reset.
remove_config(self, key) ==
    LET removed == [k \in (DOMAIN self.configs) \ {key} |-> self.configs[k]]
    IN  [default |-> IF self.default = key THEN "default" ELSE self.default,
         configs |-> removed]

----------------------------------------------------------------------------
(* The TOML text of a Config.  A line is a table header ("hdr", with the   *)
(* path of the table), a key/value pair ("kv", with the key, the type of   *)
(* the value and the value as written) or text that is no TOML ("junk").   *)

Hdr(path) == [t |-> "hdr", path |-> path, k |-> "", ty |-> "", v |-> ""]
KV(k, ty, v) == [t |-> "kv", path |-> <<>>, k |-> k, ty |-> ty, v |-> v]
Junk == [t |-> "junk", path |-> <<>>, k |-> "", ty |-> "", v |-> ""]

RECURSIVE SeqOf(_)
\* The entries of a HashMap in iteration order.
SeqOf(S) ==
    IF S = {} THEN <<>>
    ELSE LET x == CHOOSE y \in S : TRUE IN <<x>> \o SeqOf(S \ {x})

RECURSIVE Flatten(_)
Flatten(ss) == IF ss = <<>> THEN <<>> ELSE Head(ss) \o Flatten(Tail(ss))

BoolText(b) == IF b THEN "true" ELSE "false"

\* An Option<String> field: omitted when None.
StrField(k, o) == IF IsSome(o) THEN <<KV(k, "str", Unwrap(o))>> ELSE <<>>

\* Serialize for CommandDetails (type is always written, None is skipped).
DetailsLines(path, d) ==
    <<Hdr(path), KV("type", "str", d.command_type)>>
    \o StrField("command", d.command)
    \o StrField("params", d.params)
    \o (IF IsSome(d.allow_multiple_instances)
        THEN <<KV("allow_multiple_instances", "bool",
                  BoolText(Unwrap(d.allow_multiple_instances)))>>
        ELSE <<>>)
    \o StrField("working_directory", d.working_directory)
    \o StrField("pre_command", d.pre_command)
    \o (IF IsSome(d.env)
        THEN <<Hdr(path \o <<"env">>)>>
             \o [i \in 1..Cardinality(Unwrap(d.env)) |->
                    LET e == SeqOf(Unwrap(d.env))[i] IN KV(e[1], "str", e[2])]
        ELSE <<>>)

\* Serialize for CommandConfig.
ConfigLines(path, config) ==
    <<Hdr(path), KV("default", "str", config.default)>>
    \o (IF DOMAIN config.configs = {}
        THEN <<Hdr(path \o <<"configs">>)>>
        ELSE LET ks == SeqOf(DOMAIN config.configs)
             IN  Flatten([i \in 1..Len(ks) |->
                    DetailsLines(path \o <<"configs", ks[i]>>, config.configs[ks[i]])]))

\* toml::to_string_pretty(&Config) as called by Config::save.
to_string_pretty(self) ==
    IF \A c \in CommandContext : IsNone(self[c])
    THEN <<Hdr(<<"commands">>)>>
    ELSE Flatten([i \in 1..Len(ContextOrder) |->
            LET c == ContextOrder[i]
            IN  IF IsSome(self[c])
                THEN ConfigLines(<<"commands", c>>, Unwrap(self[c]))
                ELSE <<>>])

IsPrefix(p, q) == Len(p) <= Len(q) /\ SubSeq(q, 1, Len(p)) = p

RECURSIVE Scan(_, _, _, _)
\* One pass over the text: every key/value pair with the table it belongs to
\* (the last header above it), the headers, and whether all of it is TOML.
Scan(lines, i, cur, acc) ==
    IF i > Len(lines) THEN acc
    ELSE LET l == lines[i]
         IN  CASE l.t = "hdr" ->
                    Scan(lines, i + 1, l.path,
                         [acc EXCEPT !.hdrs = Append(@, l.path)])
               [] l.t = "kv" ->
                    Scan(lines, i + 1, cur,
                         [acc EXCEPT !.kvs = Append(@,
                            [tbl |-> cur, k |-> l.k, ty |-> l.ty, v |-> l.v])])
               [] OTHER -> Scan(lines, i + 1, cur, [acc EXCEPT !.junk = TRUE])

Parsed(lines) == Scan(lines, 1, <<>>, [hdrs |-> <<>>, kvs |-> <<>>, junk |-> FALSE])

Range(s) == {s[i] : i \in 1..Len(s)}
Tables(doc) == Range(doc.hdrs)
HasTable(doc, path) == \E q \in Tables(doc) : IsPrefix(path, q)
Get(doc, path, k) == {e \in Range(doc.kvs) : e.tbl = path /\ e.k = k}

\* TOML syntax: no text that is no TOML, no table and no key defined twice.
WellFormed(doc) ==
    /\ ~doc.junk
    /\ Cardinality(Tables(doc)) = Len(doc.hdrs)
    /\ Cardinality({<<e.tbl, e.k>> : e \in Range(doc.kvs)}) = Len(doc.kvs)

OptTyped(doc, path, k, ty) == \A e \in Get(doc, path, k) : e.ty = ty
OptValue(doc, path, k) ==
    LET S == Get(doc, path, k)
    IN  IF S = {} THEN None ELSE Some((CHOOSE e \in S : TRUE).v)

\* Deserialize for CommandDetails: type is required, the rest is optional.
ValidDetails(doc, path) ==
    /\ \E e \in Get(doc, path, "type") : e.ty = "str" /\ e.v \in CommandType
    /\ OptTyped(doc, path, "command", "str")
    /\ OptTyped(doc, path, "params", "str")
    /\ OptTyped(doc, path, "allow_multiple_instances", "bool")
    /\ OptTyped(doc, path, "working_directory", "str")
    /\ OptTyped(doc, path, "pre_command", "str")
    /\ \A e \in Range(doc.kvs) : e.tbl = path \o <<"env">> => e.ty = "str"

DecodeDetails(doc, path) ==
    [command_type |-> Unwrap(OptValue(doc, path, "type")),
     command |-> OptValue(doc, path, "command"),
     params |-> OptValue(doc, path, "params"),
     env |-> IF HasTable(doc, path \o <<"env">>)
             THEN Some({<<e.k, e.v>> :
                          e \in {x \in Range(doc.kvs) : x.tbl = path \o <<"env">>}})
             ELSE None,
     allow_multiple_instances |->
        LET o == OptValue(doc, path, "allow_multiple_instances")
        IN  IF IsSome(o) THEN Some(Unwrap(o) = "true") ELSE None,
     working_directory |-> OptValue(doc, path, "working_directory"),
     pre_command |-> OptValue(doc, path, "pre_command")]

ConfigKeys(doc, path) ==
    {q[Len(path) + 2] :
        q \in {r \in Tables(doc) :
                  IsPrefix(path \o <<"configs">>, r) /\ Len(r) >= Len(path) + 2}}

\* Deserialize for CommandConfig: default and configs are both required.
ValidConfig(doc, path) ==
    /\ \E e \in Get(doc, path, "default") : e.ty = "str"
    /\ HasTable(doc, path \o <<"configs">>)
    /\ \A k \in ConfigKeys(doc, path) :
          ValidDetails(doc, path \o <<"configs", k>>)

DecodeConfig(doc, path) ==
    [default |-> Unwrap(OptValue(doc, path, "default")),
     configs |-> [k \in ConfigKeys(doc, path) |->
                    DecodeDetails(doc, path \o <<"configs", k>>)]]

\* toml::from_str::<Config>: Some(commands) or None for an Err.
from_str(lines) ==
    LET doc == Parsed(lines)
    IN  IF /\ WellFormed(doc)
           /\ HasTable(doc, <<"commands">>)
           /\ \A c \in CommandContext :
                 HasTable(doc, <<"commands", c>>)
                    => ValidConfig(doc, <<"commands", c>>)
        THEN Some([c \in CommandContext |->
                     IF HasTable(doc, <<"commands", c>>)
                     THEN Some(DecodeConfig(doc, <<"commands", c>>))
                     ELSE None])
        ELSE None

\* helper::read_file with append_new_line: every line of the file is pushed
\* onto the process-wide buffer, which nothing clears; None when File::open
\* fails.  (A line that cannot be read is reported and skipped; the files
\* here have none.)
read_file(content, file) ==
    IF IsSome(file) THEN Some(content \o Unwrap(file)) ELSE None

\* Config::load: [res, config, content] for the buffer content before the call.
load(content, file) ==
    LET read == read_file(content, file)
    IN  IF IsNone(read)
        THEN [res |-> IOError, config |-> None, content |-> content]
        ELSE LET parsed == from_str(Unwrap(read))
             IN  [res |-> Ok,
                  config |-> IF IsSome(parsed) THEN parsed
                             ELSE Some(Commands_default),
                  content |-> Unwrap(read)]

\* helper::write_to_config_file: the whole file is replaced by the text.
write_to_config_file(file, toml_string) == Some(toml_string)

\* Config::save: the file after the call.
save(self, file) == write_to_config_file(file, to_string_pretty(self))

----------------------------------------------------------------------------
(* The program: one Config root, the files it loads from and saves to,    *)
(* and the process-wide buffer CONFIGURATION_FILE_CONTENT.                 *)

VARIABLES
    commands,    \* Config.commands of the program's Config
    files,       \* path -> Option<text>: the file system
    content,     \* CONFIGURATION_FILE_CONTENT
    ops,         \* number of operations performed
    prev,        \* commands before the last operation
    last,        \* the last operation: [op, ctx, key, arg, res, saved, again]
    configured,  \* contexts that got a variant since the root was built
    race         \* two callers of remove(key) and setDefault(ctx, key)

vars == <<commands, files, content, ops, prev, last, configured, race>>

\* The paths handed to load and save; "main" stands for DEFAULT_CONFIG_PATH.
Paths == {"main", "empty", "new"}

\* The root a previous run of the program saved to the default path.
SavedCommands ==
    [Commands_default EXCEPT
        !["run"] = Some([default |-> "fast",
                         configs |-> [k \in {"default", "fast"} |->
                            IF k = "fast" THEN FastDetails
                            ELSE with_context("run").configs["default"]]])]

\* No two callers are running.
NoRace ==
    [mode |-> "none", ctx |-> "", key |-> "", pcR |-> "done", pcS |-> "done",
     isdef |-> FALSE, resS |-> Ok]

NoOp ==
    [op |-> "init", ctx |-> "", key |-> "", arg |-> "", res |-> Ok,
     saved |-> FALSE, again |-> FALSE]

Init ==
    /\ commands = Commands_default
    /\ files = [p \in Paths |->
                  CASE p = "main" -> Some(to_string_pretty(SavedCommands))
                    [] p = "empty" -> Some(<<>>)
                    [] OTHER -> None]
    /\ content = <<>>
    /\ ops = 0
    /\ prev = Commands_default
    /\ last = NoOp
    /\ configured = {c \in CommandContext : IsSome(Commands_default[c])}
    /\ race = NoRace

\* One more operation on the root, with its record; saved tells a load of
\* the path that the operation right before it saved to, again a load of the
\* path that the operation right before it loaded.
Step(op, c, key, arg, res, new) ==
    /\ ops < MaxOps
    /\ ops' = ops + 1
    /\ prev' = commands
    /\ last' = [op |-> op, ctx |-> c, key |-> key, arg |-> arg, res |-> res,
                saved |-> (op = "load" /\ last.op = "save" /\ last.arg = arg),
                again |-> (op = "load" /\ last.op = "load" /\ last.arg = arg
                              /\ last.res = Ok)]
    /\ commands' = new
    /\ UNCHANGED race

\* A method of CommandConfig called on the set in slot c.
OnSet(op, c, key, arg, r) ==
    /\ IsSome(commands[c])
    /\ Step(op, c, key, arg, r.res, [commands EXCEPT ![c] = Some(r.self)])
    /\ UNCHANGED <<files, content, configured>>

GetOrCreate(c) ==
    /\ Step("getOrCreate", c, "", "", Ok, get_or_insert_command_config(commands, c))
    /\ UNCHANGED <<files, content, configured>>

SetDefault(c, key) ==
    LET r == set_default_config(commands, c, key)
    IN  /\ Step("setDefault", c, key, "", r.res, r.self)
        /\ UNCHANGED <<files, content, configured>>

AddOrReplace(c, key, details) ==
    /\ IsSome(commands[c])
    /\ Step("addOrReplace", c, key, details, Ok,
            [commands EXCEPT ![c] = Some(update_config(Unwrap(@), key, details))])
    /\ configured' = configured \cup {c}
    /\ UNCHANGED <<files, content>>

Remove(c, key) ==
    /\ IsSome(commands[c])
    /\ Step("remove", c, key, "", Ok,
            [commands EXCEPT ![c] = Some(remove_config(Unwrap(@), key))])
    /\ UNCHANGED <<files, content, configured>>

SetCommand(c, key, command) ==
    OnSet("setCommand", c, key, command,
          update_command(Unwrap(commands[c]), key, command))

SetParams(c, key, params) ==
    OnSet("setParams", c, key, params,
          update_params(Unwrap(commands[c]), key, params))

SetWorkingDirectory(c, key, cwd) ==
    OnSet("setWorkingDirectory", c, key, cwd,
          update_working_directory(Unwrap(commands[c]), key, cwd))

SetAllowMultipleInstances(c, key, allow) ==
    OnSet("setAllowMultipleInstances", c, key, allow,
          update_allow_multiple_instances(Unwrap(commands[c]), key, allow))

SetCommandType(c, key, command_type) ==
    OnSet("setCommandType", c, key, command_type,
          update_command_type(Unwrap(commands[c]), key, command_type))

SetPreCommand(c, key, pre_command) ==
    OnSet("setPreCommand", c, key, pre_command,
          update_pre_command(Unwrap(commands[c]), key, pre_command))

\* let config = Config::load(Some(p))?: on Ok the program's root is the result.
Load(p) ==
    LET r == load(content, files[p])
    IN  /\ Step("load", "", "", p, r.res,
                IF r.res = Ok THEN Unwrap(r.config) ELSE commands)
        /\ content' = r.content
        /\ configured' =
              IF r.res = Ok
              THEN {c \in CommandContext :
                      /\ IsSome(Unwrap(r.config)[c])
                      /\ DOMAIN Unwrap(Unwrap(r.config)[c]).configs # {}}
              ELSE configured
        /\ UNCHANGED files

\* config.save(Some(p))
Save(p) ==
    /\ Step("save", "", "", p, Ok, commands)
    /\ files' = [files EXCEPT ![p] = save(commands, @)]
    /\ UNCHANGED <<content, configured>>

\* The context names handed to with_context: the five contexts and two
\* names that are none.
SeedNames == CommandContext \cup {"unknown", ""}

\* A caller resets slot c to CommandConfig::with_context(name).
Seed(c, name) ==
    /\ Step("seed", c, "default", name, Ok,
            [commands EXCEPT ![c] = Some(with_context(name))])
    /\ configured' = configured \cup {c}
    /\ UNCHANGED <<files, content>>

Next ==
    \/ \E c \in ContextsIn : GetOrCreate(c)
    \/ \E c \in ContextsIn, k \in Keys : SetDefault(c, k)
    \/ \E c \in ContextsIn, k \in Keys, d \in DetailsIn : AddOrReplace(c, k, d)
    \/ \E c \in ContextsIn, k \in Keys : Remove(c, k)
    \/ \E c \in ContextsIn, k \in Keys, v \in CommandsIn : SetCommand(c, k, v)
    \/ \E c \in ContextsIn, k \in Keys, v \in ParamsIn : SetParams(c, k, v)
    \/ \E c \in ContextsIn, k \in Keys, v \in DirsIn : SetWorkingDirectory(c, k, v)
    \/ \E c \in ContextsIn, k \in Keys, v \in AllowIn :
          SetAllowMultipleInstances(c, k, v)
    \/ \E c \in ContextsIn, k \in Keys, v \in TypesIn : SetCommandType(c, k, v)
    \/ \E c \in ContextsIn, k \in Keys, v \in Keys : SetPreCommand(c, k, v)

NextIO ==
    \/ Next
    \/ \E p \in Paths : Load(p)
    \/ \E p \in Paths : Save(p)

NextSeed ==
    \/ Next
    \/ \E c \in ContextsIn, name \in SeedNames : Seed(c, name)

\* A run of the mutation operations on the built-in defaults.
Spec == Init /\ [][Next]_vars

\* A run that also loads and saves.
SpecIO == Init /\ [][NextIO]_vars

\* A run in which sets are also reset to their seeded state.
SpecSeed == Init /\ [][NextSeed]_vars

----------------------------------------------------------------------------
(* Two callers on one set: one runs remove_config(key), the other          *)
(* set_default_config(ctx, key).  A call that holds the lock is one step;  *)
(* a call without it is one step per statement of its body.  The position *)
(* of a caller (pcR, pcS) is the statement it runs next.                   *)

\* Which of the two calls run statement by statement.
RaceModes == {"atomic", "splitRemove", "splitSetDefault", "splitBoth"}
SplitsRemove(mode) == mode \in {"splitRemove", "splitBoth"}
SplitsSetDefault(mode) == mode \in {"splitSetDefault", "splitBoth"}

\* The keys the two callers are given: any key but "default".
RaceKeys == Keys \ {"default"}

\* The sets the callers start on: the keys present and the default pointer,
\* which names a present key or is the "default" that a removal left.
RaceSets ==
    UNION {{[default |-> d,
             configs |-> [k \in D |->
                            IF k = "default"
                            THEN with_context("run").configs["default"]
                            ELSE FastDetails]] :
                D \in {E \in SUBSET Keys : d \in E \/ d = "default"}} :
           d \in Keys}

\* The root and the callers as one value.
RaceState == [commands |-> commands, race |-> race]
RaceSet(s) == Unwrap(s.commands[s.race.ctx])
WithSet(s, set, r) ==
    [commands |-> [s.commands EXCEPT ![s.race.ctx] = Some(set)], race |-> r]

\* remove_config as one step.
RaceRemoveOf(s) ==
    IF s.race.pcR = "remove" /\ ~SplitsRemove(s.race.mode)
    THEN {WithSet(s, remove_config(RaceSet(s), s.race.key),
                  [s.race EXCEPT !.pcR = "done"])}
    ELSE {}

\* remove_config, first statement: self.configs.remove(key).
RaceRemoveDeleteOf(s) ==
    IF s.race.pcR = "remove" /\ SplitsRemove(s.race.mode)
    THEN {WithSet(s, [RaceSet(s) EXCEPT !.configs =
                        [k \in (DOMAIN @) \ {s.race.key} |-> @[k]]],
                  [s.race EXCEPT !.pcR = "check"])}
    ELSE {}

\* Bug: the comparison is skipped and the default pointer never reset.
RaceRemoveCheckOf_skip(s) ==
    IF s.race.pcR = "check"
    THEN {[s EXCEPT !.race.isdef = FALSE, !.race.pcR = "done"]}
    ELSE {}

\* remove_config, the read: if self.default == key.
RaceRemoveCheckOf(s) ==
    IF s.race.pcR = "check"
    THEN LET isdef == RaceSet(s).default = s.race.key
         IN  {[s EXCEPT !.race.isdef = isdef,
                        !.race.pcR = IF isdef THEN "write" ELSE "done"]}
    ELSE {}

\* remove_config, the write: self.default = "default".
RaceRemoveWriteOf(s) ==
    IF s.race.pcR = "write"
    THEN {WithSet(s, [RaceSet(s) EXCEPT !.default = "default"],
                  [s.race EXCEPT !.pcR = "done"])}
    ELSE {}

\* set_default_config as one step.
RaceSetDefaultOf(s) ==
    IF s.race.pcS = "setDefault" /\ ~SplitsSetDefault(s.race.mode)
    THEN LET r == set_default_config(s.commands, s.race.ctx, s.race.key)
         IN  {[commands |-> r.self,
               race |-> [s.race EXCEPT !.pcS = "done", !.resS = r.res]]}
    ELSE {}

\* set_default_config, the read: config.configs.contains_key(key).
RaceSetDefaultCheckOf(s) ==
    IF s.race.pcS = "setDefault" /\ SplitsSetDefault(s.race.mode)
    THEN IF s.race.key \in DOMAIN RaceSet(s).configs
         THEN {[s EXCEPT !.race.pcS = "write"]}
         ELSE {[s EXCEPT !.race.pcS = "done", !.race.resS = ConfigKeyNotFound]}
    ELSE {}

\* set_default_config, the write: config.default = key.
RaceSetDefaultWriteOf(s) ==
    IF s.race.pcS = "write"
    THEN {WithSet(s, [RaceSet(s) EXCEPT !.default = s.race.key],
                  [s.race EXCEPT !.pcS = "done", !.resS = Ok])}
    ELSE {}

\* Every step that one of the two callers can take next.
RaceSteps(s) ==
    RaceRemoveOf(s) \cup RaceRemoveDeleteOf(s) \cup RaceRemoveCheckOf(s)
        \cup RaceRemoveWriteOf(s) \cup RaceSetDefaultOf(s)
        \cup RaceSetDefaultCheckOf(s) \cup RaceSetDefaultWriteOf(s)

RECURSIVE RaceFinals(_)
\* The states in which both calls have returned, over every interleaving.
RaceFinals(s) ==
    IF RaceSteps(s) = {} THEN {s}
    ELSE UNION {RaceFinals(t) : t \in RaceSteps(s)}

\* The callers start: the root holds a set in slot c, nothing else ran.
InitRace ==
    /\ \E mode \in RaceModes, c \in ContextsIn, key \in RaceKeys,
           set \in RaceSets :
          /\ commands = [Commands_default EXCEPT ![c] = Some(set)]
          /\ race = [mode |-> mode, ctx |-> c, key |-> key, pcR |-> "remove",
                     pcS |-> "setDefault", isdef |-> FALSE, resS |-> Ok]
    /\ files = [p \in Paths |-> None]
    /\ content = <<>>
    /\ ops = 0
    /\ prev = commands
    /\ last = NoOp
    /\ configured = {c \in CommandContext : IsSome(commands[c])}

\* A caller takes the step t.
RaceMove(t) ==
    /\ commands' = t.commands
    /\ race' = t.race
    /\ UNCHANGED <<files, content, ops, prev, last, configured>>

RaceRemove == \E t \in RaceRemoveOf(RaceState) : RaceMove(t)
RaceRemoveDelete == \E t \in RaceRemoveDeleteOf(RaceState) : RaceMove(t)
RaceRemoveCheck == \E t \in RaceRemoveCheckOf(RaceState) : RaceMove(t)
RaceRemoveWrite == \E t \in RaceRemoveWriteOf(RaceState) : RaceMove(t)
RaceSetDefault == \E t \in RaceSetDefaultOf(RaceState) : RaceMove(t)
RaceSetDefaultCheck == \E t \in RaceSetDefaultCheckOf(RaceState) : RaceMove(t)
RaceSetDefaultWrite == \E t \in RaceSetDefaultWriteOf(RaceState) : RaceMove(t)

NextRace ==
    \/ RaceRemove
    \/ RaceRemoveDelete
    \/ RaceRemoveCheck
    \/ RaceRemoveWrite
    \/ RaceSetDefault
    \/ RaceSetDefaultCheck
    \/ RaceSetDefaultWrite

\* The two calls from their start to their return.
SpecRace == InitRace /\ [][NextRace]_vars

TypeOK ==
    /\ ops \in 0..MaxOps
    /\ \A c \in CommandContext : Len(commands[c]) \in {0, 1}

----------------------------------------------------------------------------
(* Properties.  They speak of the last operation, the root before it       *)
(* (prev) and the root after it (commands).                                *)

FieldOps ==
    {"setCommand", "setParams", "setWorkingDirectory",
     "setAllowMultipleInstances", "setCommandType"}
UpdateOps == FieldOps \cup {"setPreCommand"}
FallibleOps == UpdateOps \cup {"setDefault"}
MutationOps == UpdateOps \cup {"setDefault", "getOrCreate", "addOrReplace", "remove"}

\* The set the last operation was addressed to, before and after it.
PrevSet == Unwrap(prev[last.ctx])
CurSet == Unwrap(commands[last.ctx])
OnPresentSet(opset) == last.op \in opset /\ IsSome(prev[last.ctx])
KeyExisted == last.key \in DOMAIN PrevSet.configs

\* C1 as stated: every update operation addressed to a key that is no variant
\* name of the set returns ConfigKeyNotFound, setPreCommand with any
\* preCommandKey included.
C1_EveryUpdateKeyNotFound ==
    (OnPresentSet(UpdateOps) /\ ~KeyExisted) => last.res = ConfigKeyNotFound

\* C1 amended: for a key that is no variant name of the set, the five field
\* setters return ConfigKeyNotFound; setPreCommand returns ConfigKeyNotFound
\* when preCommandKey differs from the key and is empty or a variant name of
\* the set, and InvalidPreCommand otherwise.
C1_MissingKeyErrors ==
    (OnPresentSet(UpdateOps) /\ ~KeyExisted) =>
        IF last.op = "setPreCommand"
        THEN IF last.arg # last.key
                /\ (last.arg = "" \/ last.arg \in DOMAIN PrevSet.configs)
             THEN last.res = ConfigKeyNotFound
             ELSE last.res = InvalidPreCommand
        ELSE last.res = ConfigKeyNotFound

\* C1 witness: setPreCommand on a missing key with an existing preCommandKey
\* was answered with ConfigKeyNotFound.
C1_Witness ==
    /\ OnPresentSet({"setPreCommand"}) /\ ~KeyExisted
    /\ last.arg \in DOMAIN PrevSet.configs
    /\ last.res = ConfigKeyNotFound

\* C2: a mutation that returns an error leaves the whole root as it was.
C2_FailedMutationChangesNothing ==
    (last.op \in FallibleOps /\ last.res # Ok) => commands = prev

\* C2 witness: a setDefault failed on a set that exists.
C2_Witness ==
    /\ OnPresentSet({"setDefault"}) /\ last.res = ConfigKeyNotFound
    /\ commands = prev

\* A setPreCommand is refused when it names the variant itself or a
\* non-empty name that is no variant of the set.
PreRefused ==
    \/ last.arg = last.key
    \/ last.arg # "" /\ last.arg \notin DOMAIN PrevSet.configs

\* C3 as stated: for an existing key setPreCommand fails with
\* InvalidPreCommand iff other is non-empty and no variant name of the set,
\* and otherwise succeeds and records other as the link.
C3_FailsIffDangling ==
    (OnPresentSet({"setPreCommand"}) /\ KeyExisted) =>
        IF last.arg # "" /\ last.arg \notin DOMAIN PrevSet.configs
        THEN last.res = InvalidPreCommand
        ELSE /\ last.res = Ok
             /\ CurSet.configs[last.key].pre_command = Some(last.arg)

\* C3 amended: for an existing key setPreCommand(key, other) fails with
\* InvalidPreCommand iff other equals key or other is non-empty and no variant
\* name of the set; in every other case it succeeds, and the variant's
\* preCommand is absent when other is empty and names other otherwise.
C3_FailsIffSelfOrDangling ==
    (OnPresentSet({"setPreCommand"}) /\ KeyExisted) =>
        IF PreRefused
        THEN last.res = InvalidPreCommand
        ELSE /\ last.res = Ok
             /\ CurSet.configs[last.key].pre_command =
                   IF last.arg = "" THEN None ELSE Some(last.arg)

\* C3 witness: a link to another existing variant was recorded.
C3_Witness ==
    /\ OnPresentSet({"setPreCommand"}) /\ KeyExisted
    /\ last.arg # "" /\ last.arg # last.key /\ last.res = Ok
    /\ CurSet.configs[last.key].pre_command = Some(last.arg)

\* C4 as stated: for every existing key, whatever string it is,
\* setPreCommand(key, "") succeeds and leaves preCommand absent.
C4_ClearAlwaysSucceeds ==
    (OnPresentSet({"setPreCommand"}) /\ KeyExisted /\ last.arg = "") =>
        /\ last.res = Ok
        /\ CurSet.configs[last.key].pre_command = None

\* C4 amended: for every existing non-empty key, setPreCommand(key, "")
\* succeeds and leaves that variant's preCommand absent.
C4_ClearSucceedsForNonEmptyKey ==
    (OnPresentSet({"setPreCommand"}) /\ KeyExisted /\ last.arg = ""
        /\ last.key # "") =>
        /\ last.res = Ok
        /\ CurSet.configs[last.key].pre_command = None

\* C4 witness: a preCommand that was present has been cleared.
C4_Witness ==
    /\ OnPresentSet({"setPreCommand"}) /\ KeyExisted
    /\ last.arg = "" /\ last.key # "" /\ last.res = Ok
    /\ IsSome(PrevSet.configs[last.key].pre_command)
    /\ CurSet.configs[last.key].pre_command = None

\* C5: setPreCommand(key, key) with a non-empty key fails with
\* InvalidPreCommand, whether or not the key exists, and stores nothing.
C5_SelfReferenceRejected ==
    (OnPresentSet({"setPreCommand"}) /\ last.arg = last.key /\ last.key # "") =>
        /\ last.res = InvalidPreCommand
        /\ commands = prev

\* C5 witness: a self reference on an existing variant was refused.
C5_Witness ==
    /\ OnPresentSet({"setPreCommand"}) /\ KeyExisted
    /\ last.arg = last.key /\ last.key # ""
    /\ last.res = InvalidPreCommand

\* The root after addOrReplace(run, "fast", variant{command: "run --release"})
\* and setDefault(run, "fast") on the built-in defaults.
ScenarioRoot ==
    set_default_config(
        [Commands_default EXCEPT !["run"] =
            Some(update_config(Unwrap(@), "fast", FastDetails))],
        "run", "fast").self

\* C6: remove(key) of the current default sets default to "default", also
\* when no such variant is left; remove of another key leaves default as it
\* was; and the scenario ends with default "default" and the seeded variant.
C6_RemoveResetsDefault ==
    /\ OnPresentSet({"remove"}) =>
          CurSet.default =
             IF PrevSet.default = last.key THEN "default" ELSE PrevSet.default
    /\ (last.op = "remove" /\ last.ctx = "run" /\ last.key = "fast"
            /\ prev = ScenarioRoot) =>
          /\ CurSet.default = "default"
          /\ DOMAIN CurSet.configs = {"default"}
          /\ CurSet.configs["default"] = with_context("run").configs["default"]

\* C6 witness: the end of the scenario.
C6_Witness ==
    /\ ops = 3 /\ last.op = "remove" /\ last.ctx = "run" /\ last.key = "fast"
    /\ prev = ScenarioRoot /\ PrevSet.default = "fast"
    /\ CurSet.default = "default"

\* C7: setDefault fails, with ConfigKeyNotFound, exactly when the slot is
\* absent or the key is no variant name; on success default is the key and
\* nothing else of the root changes.
C7_SetDefault ==
    last.op = "setDefault" =>
        IF IsNone(prev[last.ctx]) \/ ~KeyExisted
        THEN last.res = ConfigKeyNotFound
        ELSE /\ last.res = Ok
             /\ CurSet.default = last.key
             /\ CurSet.configs = PrevSet.configs
             /\ \A c \in CommandContext \ {last.ctx} : commands[c] = prev[c]

\* C7 witness: the default moved to another existing variant.
C7_Witness ==
    /\ OnPresentSet({"setDefault"}) /\ last.res = Ok
    /\ PrevSet.default # last.key /\ CurSet.default = last.key

\* C8: a load right after a save to the same path returns the saved root.
C8_SaveLoadRoundTrip ==
    (last.op = "load" /\ last.saved) => (last.res = Ok /\ commands = prev)

\* C9: a load of a file that can be read but does not parse into a root
\* succeeds with the built-in default root.
C9_UnparseableFileYieldsDefaults ==
    (last.op = "load" /\ IsSome(files[last.arg])
        /\ IsNone(from_str(Unwrap(files[last.arg])))) =>
        (last.res = Ok /\ commands = Commands_default)

\* C10: no mutation operation turns a present slot into None, and a slot is
\* None only if no variant was ever configured for its context.
C10_SlotStaysPresent ==
    /\ last.op \in MutationOps =>
          \A c \in CommandContext : IsSome(prev[c]) => IsSome(commands[c])
    /\ \A c \in CommandContext : IsNone(commands[c]) => c \notin configured

\* C10 witness: the last variant of a set was removed and the slot is still
\* present.
C10_Witness ==
    /\ OnPresentSet({"remove"})
    /\ DOMAIN PrevSet.configs # {}
    /\ IsSome(commands[last.ctx]) /\ DOMAIN CurSet.configs = {}

\* C11: the built-in default root has, for run, test, build and bench, a
\* present set with exactly one variant, named "default", and default
\* pointer "default"; the script slot is absent.
C11_BuiltInDefaults ==
    last.op = "init" =>
        /\ \A c \in {"run", "test", "build", "bench"} :
              /\ IsSome(commands[c])
              /\ DOMAIN Unwrap(commands[c]).configs = {"default"}
              /\ Unwrap(commands[c]).default = "default"
        /\ IsNone(commands["script"])

\* C11 witness: the root right after Config::default().
C11_Witness ==
    /\ ops = 0 /\ last.op = "init"
    /\ DOMAIN Unwrap(commands["bench"]).configs = {"default"}
    /\ IsNone(commands["script"])

\* C13: getOrCreate never fails; on an absent slot it creates a set with no
\* variants and default "default", on a present slot it changes nothing; a
\* second call changes nothing; the other slots are unchanged.
C13_GetOrCreate ==
    last.op = "getOrCreate" =>
        /\ last.res = Ok
        /\ \A c \in CommandContext \ {last.ctx} : commands[c] = prev[c]
        /\ IF IsSome(prev[last.ctx])
           THEN commands = prev
           ELSE /\ IsSome(commands[last.ctx])
                /\ DOMAIN CurSet.configs = {}
                /\ CurSet.default = "default"
        /\ get_or_insert_command_config(commands, last.ctx) = commands

\* C13 witness: getOrCreate created the empty set in an absent slot.
C13_Witness ==
    /\ last.op = "getOrCreate" /\ IsNone(prev[last.ctx])
    /\ IsSome(commands[last.ctx])
    /\ DOMAIN CurSet.configs = {} /\ CurSet.default = "default"

\* C14: addOrReplace never fails and validates nothing: afterwards the
\* variant named key is the details given, pre_command included; the other
\* variants, the default pointer and the other slots are unchanged.
C14_AddOrReplace ==
    OnPresentSet({"addOrReplace"}) =>
        /\ last.res = Ok
        /\ DOMAIN CurSet.configs = DOMAIN PrevSet.configs \cup {last.key}
        /\ CurSet.configs[last.key] = last.arg
        /\ \A k \in DOMAIN PrevSet.configs \ {last.key} :
              CurSet.configs[k] = PrevSet.configs[k]
        /\ CurSet.default = PrevSet.default
        /\ \A c \in CommandContext \ {last.ctx} : commands[c] = prev[c]

\* C14 witness: an existing variant was replaced by details whose
\* pre_command names the variant itself.
C14_Witness ==
    /\ OnPresentSet({"addOrReplace"}) /\ KeyExisted
    /\ PrevSet.configs[last.key] # last.arg
    /\ CurSet.configs[last.key].pre_command = Some(last.key)

\* C15: the outcome of setPreCommand(key, pre) is that of the first matching
\* branch: (1) pre = key, InvalidPreCommand; (2) pre empty, the field is
\* cleared, or ConfigKeyNotFound for a missing key; (3) pre no variant name,
\* InvalidPreCommand; (4) the link is set, or ConfigKeyNotFound for a missing
\* key.
C15_BranchOrder ==
    OnPresentSet({"setPreCommand"}) =>
        CASE last.arg = last.key ->
                last.res = InvalidPreCommand /\ commands = prev
          [] last.arg # last.key /\ last.arg = "" ->
                IF KeyExisted
                THEN /\ last.res = Ok
                     /\ CurSet.configs[last.key].pre_command = None
                ELSE last.res = ConfigKeyNotFound /\ commands = prev
          [] last.arg # last.key /\ last.arg # ""
                /\ last.arg \notin DOMAIN PrevSet.configs ->
                last.res = InvalidPreCommand /\ commands = prev
          [] OTHER ->
                IF KeyExisted
                THEN /\ last.res = Ok
                     /\ CurSet.configs[last.key].pre_command = Some(last.arg)
                ELSE last.res = ConfigKeyNotFound /\ commands = prev

\* C15 witness: key and pre both empty, on a set that has the empty key: the
\* self-reference branch answered, not the clearing branch.
C15_Witness ==
    /\ OnPresentSet({"setPreCommand"}) /\ KeyExisted
    /\ last.key = "" /\ last.arg = ""
    /\ last.res = InvalidPreCommand

\* The variant a successful field setter leaves, from the variant before.
FieldSet(d) ==
    CASE last.op = "setCommand" -> [d EXCEPT !.command = Some(last.arg)]
      [] last.op = "setParams" -> [d EXCEPT !.params = Some(last.arg)]
      [] last.op = "setWorkingDirectory" ->
            [d EXCEPT !.working_directory = Some(last.arg)]
      [] last.op = "setAllowMultipleInstances" ->
            [d EXCEPT !.allow_multiple_instances = Some(last.arg)]
      [] last.op = "setCommandType" -> [d EXCEPT !.command_type = last.arg]

\* C16: a field setter on an existing key succeeds and replaces that one
\* field of that one variant; the variant's other fields, the other variants,
\* the variant names, the default pointer and the other slots are unchanged.
C16_FieldSetterFrame ==
    (OnPresentSet(FieldOps) /\ KeyExisted) =>
        /\ last.res = Ok
        /\ DOMAIN CurSet.configs = DOMAIN PrevSet.configs
        /\ CurSet.configs[last.key] = FieldSet(PrevSet.configs[last.key])
        /\ \A k \in DOMAIN PrevSet.configs \ {last.key} :
              CurSet.configs[k] = PrevSet.configs[k]
        /\ CurSet.default = PrevSet.default
        /\ \A c \in CommandContext \ {last.ctx} : commands[c] = prev[c]

\* C16 witness: setParams gave params a new value.
C16_Witness ==
    /\ OnPresentSet({"setParams"}) /\ KeyExisted /\ last.res = Ok
    /\ PrevSet.configs[last.key].params # Some(last.arg)
    /\ CurSet.configs[last.key].params = Some(last.arg)

\* C17: remove never fails and changes only the entry named key and possibly
\* the default pointer; every remaining variant keeps all its fields, also a
\* pre_command that names the removed key.
C17_RemoveFrame ==
    OnPresentSet({"remove"}) =>
        /\ last.res = Ok
        /\ DOMAIN CurSet.configs = DOMAIN PrevSet.configs \ {last.key}
        /\ \A k \in DOMAIN CurSet.configs :
              CurSet.configs[k] = PrevSet.configs[k]
        /\ \A c \in CommandContext \ {last.ctx} : commands[c] = prev[c]

\* C17 witness: after addOrReplace(run, "fast"), setPreCommand(run,
\* "default", "fast") and remove(run, "fast") the seeded variant still names
\* "fast", which is no variant any more.
C17_Witness ==
    /\ OnPresentSet({"remove"}) /\ KeyExisted
    /\ last.ctx = "run" /\ last.key = "fast"
    /\ DOMAIN CurSet.configs = {"default"}
    /\ CurSet.configs["default"] =
          [with_context("run").configs["default"] EXCEPT
              !.pre_command = Some("fast")]

\* C19: in every state reached from the built-in defaults by the mutation
\* operations, the default pointer of each present set is the literal
\* "default" or the name of a variant of that set.
C19_DefaultResolvesOrLiteral ==
    \A c \in CommandContext :
        IsSome(commands[c]) =>
            \/ Unwrap(commands[c]).default = "default"
            \/ Unwrap(commands[c]).default \in DOMAIN Unwrap(commands[c]).configs

\* C19 witness: the variant the default pointed to was removed and the
\* pointer fell back to "default".
C19_Witness ==
    /\ OnPresentSet({"remove"}) /\ KeyExisted
    /\ PrevSet.default = last.key /\ last.key # "default"
    /\ CurSet.default = "default"

\* The commandType and command that section 4.4 gives for a context name.
SeedTable(name) ==
    CASE name = "run" ->
            <<Cargo, "run --package ${packageName} --bin ${binaryName}">>
      [] name = "test" -> <<Cargo, "test">>
      [] name = "build" -> <<Cargo, "build">>
      [] name = "bench" -> <<Cargo, "bench">>
      [] OTHER -> <<Shell, "">>

\* C12: for every context name the seeded variant has params "",
\* allowMultipleInstances false, the workspace-root placeholder, an empty env
\* and an absent preCommand, the value that setPreCommand(key, "") leaves;
\* commandType and command follow the table.
C12_SeededVariant ==
    last.op = "seed" =>
        LET d == CurSet.configs["default"]
            cleared == update_pre_command(
                           update_config(CurSet, "other", FastDetails),
                           "default", "").self.configs["default"]
        IN  /\ DOMAIN CurSet.configs = {"default"}
            /\ d.params = Some("")
            /\ d.allow_multiple_instances = Some(FALSE)
            /\ d.working_directory = Some("${workspaceFolder}")
            /\ d.env = Some({})
            /\ d.command_type = SeedTable(last.arg)[1]
            /\ d.command = Some(SeedTable(last.arg)[2])
            /\ IsNone(d.pre_command)
            /\ d.pre_command = cleared.pre_command

\* C20: the result of load depends on the file alone: a load of a parseable
\* file right after a load of the same, unchanged file returns the same root.
C20_LoadDependsOnFileOnly ==
    (last.op = "load" /\ last.again
        /\ IsSome(from_str(Unwrap(files[last.arg])))) =>
        (last.res = Ok /\ commands = prev)

\* Both calls have returned.
RaceDone == race.mode # "none" /\ race.pcR = "done" /\ race.pcS = "done"

\* The callers' set: default names the key, and the key is removed.
DefaultNamesRemoved(s) ==
    /\ RaceSet(s).default = s.race.key
    /\ s.race.key \notin DOMAIN RaceSet(s).configs

\* The calls have not started and the key is in the set.
RaceFresh ==
    /\ race.mode # "none" /\ race.pcR = "remove" /\ race.pcS = "setDefault"
    /\ race.key \in DOMAIN RaceSet(RaceState).configs

\* C18 as stated: atomic calls never end with default naming the key, and
\* letting the statements of either call interleave with the other call
\* makes a final state with default naming the removed key reachable.
C18_EitherSplitReaches ==
    /\ (RaceDone /\ race.mode = "atomic") =>
            RaceSet(RaceState).default # race.key
    /\ (RaceFresh /\ race.mode # "atomic") =>
            \E f \in RaceFinals(RaceState) : DefaultNamesRemoved(f)

\* C18: atomic calls never end with default naming the key, and neither do
\* the statements of remove interleaved with an atomic setDefault; once the
\* check and the write of setDefault may interleave with remove, a final
\* state with default naming the removed key is reachable.
C18_SetDefaultSplitReaches ==
    /\ (RaceDone /\ ~SplitsSetDefault(race.mode)) =>
            RaceSet(RaceState).default # race.key
    /\ (RaceFresh /\ ~SplitsSetDefault(race.mode)) =>
            \A f \in RaceFinals(RaceState) : ~DefaultNamesRemoved(f)
    /\ (RaceFresh /\ SplitsSetDefault(race.mode)) =>
            \E f \in RaceFinals(RaceState) : DefaultNamesRemoved(f)

\* setDefault checked, remove ran, setDefault wrote: default names the
\* removed key.
C18_Witness ==
    /\ RaceDone /\ race.mode = "splitSetDefault" /\ race.resS = Ok
    /\ DefaultNamesRemoved(RaceState)

====
